---- MODULE Spec2Model ----
(***************************************************************************)
(* Model of gateway/router.py: the telemetry CPU sampler and its           *)
(* process-wide baseline, the keyword classifier, the backend resolver,    *)
(* the auto-route invoke and the HTTP handlers (do_GET / do_POST).         *)
(*                                                                         *)
(* Conventions                                                             *)
(*   - Python None is the empty sequence None; a present value v is the    *)
(*     one-element sequence Some(v).                                       *)
(*   - Floats that are fixed constants (0.99, 0.85, ...) are kept in       *)
(*     hundredths; cpu_percent is an exact fraction <<n, d>> in lowest     *)
(*     terms (n/d percent).                                                *)
(*   - Text is a sequence of one-character strings, so that lower() and    *)
(*     substring search are computed character by character.               *)
(***************************************************************************)
EXTENDS Integers, Sequences, FiniteSets, TLC

VARIABLES
    \* ---- telemetry: _collect_local_cpu_percent and its globals
    prev_total,     \* _CPU_PREV_TOTAL : None or Some(total)
    prev_idle,      \* _CPU_PREV_IDLE  : None or Some(idle_all)
    active,         \* the request threads that serve /telemetry/snapshot
    quota,          \* thread -> calls it may still start
    pc,             \* thread -> position inside _collect_local_cpu_percent
    loc,            \* thread -> locals (line, total, idle_all, total_delta, idle_delta)
    calls,          \* thread -> completed calls, in order: [line, ret]
    \* ---- classifier: one call of _infer_route
    text,           \* the text argument
    has_image,      \* the has_image argument
    decision,       \* None, or Some(what _infer_route returned)
    \* ---- dispatch: one call of resolve_backend and of _invoke_model
    arg_model,      \* the model_name argument (a Python value)
    arg_text,       \* the text argument of _invoke_model
    arg_image_url,  \* the image_url argument
    arg_image_path, \* the image_path argument
    reply,          \* what the backend answers to a forwarded request
    resolved,       \* None, or Some(what resolve_backend returned)
    invoked,        \* None, or Some([sent, result] of _invoke_model)
    \* ---- HTTP server: the request threads of the ThreadingHTTPServer
    stage,          \* thread -> "free", "upstream" (inside urlopen), "sampling"
                    \*           (inside _collect_local_cpu_percent) or "done"
    request,        \* thread -> the request it handles (method, target, headers, body)
    forwarded,      \* thread -> the request it sent to a backend, or NoRequest
    upstream,       \* thread -> what the backend answered, or NoReply
    response,       \* thread -> None (nothing written: not yet, or the handler
                    \*           raised), else Some(response written)
    served          \* number of requests accepted

telvars == <<prev_total, prev_idle, active, quota, pc, loc, calls>>

clsvars == <<text, has_image, decision>>

dspvars == <<arg_model, arg_text, arg_image_url, arg_image_path, reply, resolved, invoked>>

httpvars == <<stage, request, forwarded, upstream, response, served>>

vars == <<telvars, clsvars, dspvars, httpvars>>

(***************************************************************************)
(* Option values                                                           *)
(***************************************************************************)
None == <<>>
Some(v) == <<v>>
IsNone(o) == o = <<>>
Val(o) == o[1]

(***************************************************************************)
(* Bounds                                                                  *)
(***************************************************************************)
\* calls made one after the other by the single thread of SpecSeq
SeqCalls == 3
\* fragments concatenated into a classifier text
MaxFrags == 3
\* requests handled one after the other in SpecHttp
MaxRequests == 2
\* calls made by each of the two threads of SpecCpu
ConcCalls == 2

(***************************************************************************)
(* /proc/stat first line: a name token followed by numeric tokens.         *)
(***************************************************************************)
StatLine(name, vals) == [name |-> name, vals |-> vals]

\* the readings a (fake or real) CPU-stat source hands out
StatLines ==
    { StatLine("cpu", <<20, 0, 0, 6, 6, 0, 0, 0>>),         \* total 32, idle_all 12
      StatLine("cpu", <<5, 0, 0, 1, 1, 0, 0, 0>>),          \* total 7,  idle_all 2
      StatLine("cpu", <<30, 1, 2, 1, 0, 3, 2, 1, 0, 0>>),   \* total 40, idle_all 1
      StatLine("cpu", <<1, 2, 3, 4, 5>>),                   \* too few counters
      StatLine("cpux", <<1, 2, 3, 4, 5, 6, 7, 8>>),         \* not the aggregate line
      StatLine("", <<>>) }                                  \* empty read

\* lines 104-109: the line splits into at least 5 tokens, the first is "cpu",
\* and parts[1:9] unpacks into exactly eight counters
ParseOk(line) ==
    /\ ~(1 + Len(line.vals) < 5 \/ line.name # "cpu")
    /\ Len(line.vals) >= 8

\* idle alone, iowait left out
IdleAll_NoIowait(line) == line.vals[4]

\* line 111
IdleAll(line) == line.vals[4] + line.vals[5]
\* line 112
NonIdle(line) ==
    line.vals[1] + line.vals[2] + line.vals[3] + line.vals[6] + line.vals[7] + line.vals[8]
\* line 113
Total(line) == IdleAll(line) + NonIdle(line)

(***************************************************************************)
(* Percentages as exact fractions                                          *)
(***************************************************************************)
RECURSIVE Gcd(_, _)
Gcd(a, b) == IF b = 0 THEN a ELSE Gcd(b, a % b)

\* n/d in lowest terms, d > 0, n >= 0
Frac(n, d) == LET g == Gcd(n, d) IN <<n \div g, d \div g>>

\* _normalize_percent applied to (num / den) * 100.0, den > 0
NormalizePercent(num, den) ==
    IF num < 0 THEN <<0, 1>>
    ELSE IF num > den THEN <<100, 1>>
    ELSE Frac(100 * num, den)

\* lines 126-130
CpuPercent(total_delta, idle_delta) ==
    IF total_delta <= 0 THEN None
    ELSE Some(NormalizePercent(total_delta - idle_delta, total_delta))

(***************************************************************************)
(* _collect_local_cpu_percent, one thread's steps                          *)
(***************************************************************************)
FreshLoc == [line |-> StatLine("", <<>>), total |-> 0, idle_all |-> 0, total_delta |-> 0, idle_delta |-> 0]

\* the function returns: the call is recorded and the thread is between calls
Return(t, line, ret) ==
    /\ calls' = [calls EXCEPT ![t] = Append(@, [line |-> line, ret |-> ret])]
    /\ pc' = [pc EXCEPT ![t] = "idle"]
    /\ loc' = [loc EXCEPT ![t] = FreshLoc]

\* lines 100-113: read the first line of /proc/stat and parse it
ReadStat(t) ==
    /\ pc[t] = "idle"
    /\ quota[t] > 0
    /\ quota' = [quota EXCEPT ![t] = @ - 1]
    /\ \E line \in StatLines :
         IF ParseOk(line)
         THEN /\ loc' = [loc EXCEPT ![t] = [FreshLoc EXCEPT !.line = line,
                                                          !.total = Total(line),
                                                          !.idle_all = IdleAll(line)]]
              /\ pc' = [pc EXCEPT ![t] = "chk_total"]
              /\ UNCHANGED calls
         ELSE Return(t, line, None)
    /\ UNCHANGED <<prev_total, prev_idle, active>>

\* line 115, left operand
CheckTotal(t) ==
    /\ pc[t] = "chk_total"
    /\ pc' = [pc EXCEPT ![t] = IF IsNone(prev_total) THEN "seed_total" ELSE "chk_idle"]
    /\ UNCHANGED <<prev_total, prev_idle, active, quota, loc, calls>>

\* line 115, right operand
CheckIdle(t) ==
    /\ pc[t] = "chk_idle"
    /\ pc' = [pc EXCEPT ![t] = IF IsNone(prev_idle) THEN "seed_total" ELSE "delta_total"]
    /\ UNCHANGED <<prev_total, prev_idle, active, quota, loc, calls>>

\* line 116
SeedTotal(t) ==
    /\ pc[t] = "seed_total"
    /\ prev_total' = Some(loc[t].total)
    /\ pc' = [pc EXCEPT ![t] = "seed_idle"]
    /\ UNCHANGED <<prev_idle, active, quota, loc, calls>>

\* lines 117-118
SeedIdle(t) ==
    /\ pc[t] = "seed_idle"
    /\ prev_idle' = Some(loc[t].idle_all)
    /\ Return(t, loc[t].line, None)
    /\ UNCHANGED <<prev_total, active, quota>>

\* line 120
DeltaTotal(t) ==
    /\ pc[t] = "delta_total"
    /\ loc' = [loc EXCEPT ![t].total_delta = loc[t].total - Val(prev_total)]
    /\ pc' = [pc EXCEPT ![t] = "delta_idle"]
    /\ UNCHANGED <<prev_total, prev_idle, active, quota, calls>>

\* line 121
DeltaIdle(t) ==
    /\ pc[t] = "delta_idle"
    /\ loc' = [loc EXCEPT ![t].idle_delta = loc[t].idle_all - Val(prev_idle)]
    /\ pc' = [pc EXCEPT ![t] = "store_total"]
    /\ UNCHANGED <<prev_total, prev_idle, active, quota, calls>>

\* line 123
StoreTotal(t) ==
    /\ pc[t] = "store_total"
    /\ prev_total' = Some(loc[t].total)
    /\ pc' = [pc EXCEPT ![t] = "store_idle"]
    /\ UNCHANGED <<prev_idle, active, quota, loc, calls>>

\* lines 124-130
StoreIdle(t) ==
    /\ pc[t] = "store_idle"
    /\ prev_idle' = Some(loc[t].idle_all)
    /\ Return(t, loc[t].line, CpuPercent(loc[t].total_delta, loc[t].idle_delta))
    /\ UNCHANGED <<prev_total, active, quota>>

TelStep ==
    \/ \E t \in active : ReadStat(t)
    \/ \E t \in active : CheckTotal(t)
    \/ \E t \in active : CheckIdle(t)
    \/ \E t \in active : SeedTotal(t)
    \/ \E t \in active : SeedIdle(t)
    \/ \E t \in active : DeltaTotal(t)
    \/ \E t \in active : DeltaIdle(t)
    \/ \E t \in active : StoreTotal(t)
    \/ \E t \in active : StoreIdle(t)

\* lines 25-26 and process start: no baseline, no call in progress
TelInit(threads, n) ==
    /\ prev_total = None
    /\ prev_idle = None
    /\ active = threads
    /\ quota = [t \in threads |-> n]
    /\ pc = [t \in threads |-> "idle"]
    /\ loc = [t \in threads |-> FreshLoc]
    /\ calls = [t \in threads |-> <<>>]

(***************************************************************************)
(* The same function run without interruption: one whole call applied to   *)
(* a CpuCounterState st = [total, idle]; gives the state after and the     *)
(* value returned.                                                         *)
(***************************************************************************)
CpuState(t, i) == [total |-> t, idle |-> i]

SerialSample(st, line) ==
    IF ~ParseOk(line) THEN [st |-> st, ret |-> None]
    ELSE IF IsNone(st.total) \/ IsNone(st.idle)
         THEN [st |-> CpuState(Some(Total(line)), Some(IdleAll(line))), ret |-> None]
         ELSE [st |-> CpuState(Some(Total(line)), Some(IdleAll(line))),
               ret |-> CpuPercent(Total(line) - Val(st.total), IdleAll(line) - Val(st.idle))]

(***************************************************************************)
(* Strings: sequences of one-character strings                             *)
(***************************************************************************)
UpperChars ==
    <<"A", "B", "C", "D", "E", "F", "G", "H", "I", "J", "K", "L", "M",
      "N", "O", "P", "Q", "R", "S", "T", "U", "V", "W", "X", "Y", "Z">>
LowerChars ==
    <<"a", "b", "c", "d", "e", "f", "g", "h", "i", "j", "k", "l", "m",
      "n", "o", "p", "q", "r", "s", "t", "u", "v", "w", "x", "y", "z">>

\* str.lower(), character by character
Lower(s) ==
    [i \in 1..Len(s) |->
        IF \E j \in 1..Len(UpperChars) : UpperChars[j] = s[i]
        THEN LowerChars[CHOOSE j \in 1..Len(UpperChars) : UpperChars[j] = s[i]]
        ELSE s[i]]

\* str.upper(), character by character
Upper(s) ==
    [i \in 1..Len(s) |->
        IF \E j \in 1..Len(LowerChars) : LowerChars[j] = s[i]
        THEN UpperChars[CHOOSE j \in 1..Len(LowerChars) : LowerChars[j] = s[i]]
        ELSE s[i]]

\* needle in hay (substring containment)
Contains(hay, needle) ==
    \E i \in 0..(Len(hay) - Len(needle)) : SubSeq(hay, i + 1, i + Len(needle)) = needle

\* any(keyword in s for keyword in keywords)
ContainsAny(s, keywords) == \E i \in 1..Len(keywords) : Contains(s, keywords[i])

\* str(n) for an integer n >= 0
RECURSIVE IntChars(_)
IntChars(n) ==
    LET digits == <<"0", "1", "2", "3", "4", "5", "6", "7", "8", "9">> IN
    IF n < 10 THEN <<digits[n + 1]>> ELSE IntChars(n \div 10) \o <<digits[(n % 10) + 1]>>

\* s.startswith(prefix)
StartsWith(str, prefix) == Len(str) >= Len(prefix) /\ SubSeq(str, 1, Len(prefix)) = prefix

\* str.strip() for the whitespace characters space, tab and newline
RECURSIVE LStrip(_)
LStrip(str) == IF str # <<>> /\ Head(str) \in {" ", "\t", "\n"} THEN LStrip(Tail(str)) ELSE str
RECURSIVE RStrip(_)
RStrip(str) ==
    IF str # <<>> /\ str[Len(str)] \in {" ", "\t", "\n"} THEN RStrip(SubSeq(str, 1, Len(str) - 1)) ELSE str
Strip(str) == RStrip(LStrip(str))

RECURSIVE Concat(_)
Concat(ss) == IF ss = <<>> THEN <<>> ELSE Head(ss) \o Concat(Tail(ss))

(***************************************************************************)
(* Configuration (lines 15-21, the defaults)                               *)
(***************************************************************************)
REASONING_URL == "http://127.0.0.1:8355"
MULTIMODAL_URL == "http://127.0.0.1:8356"

MODEL_REASONING_ID ==
    <<"n", "v", "i", "d", "i", "a", "/", "P", "h", "i", "-", "4", "-", "r", "e", "a",
      "s", "o", "n", "i", "n", "g", "-", "p", "l", "u", "s", "-", "F", "P", "8">>
MODEL_MULTIMODAL_ID ==
    <<"n", "v", "i", "d", "i", "a", "/", "P", "h", "i", "-", "4", "-", "m", "u", "l",
      "t", "i", "m", "o", "d", "a", "l", "-", "i", "n", "s", "t", "r", "u", "c", "t", "-",
      "N", "V", "F", "P", "4">>
MODEL_REASONING_ALIAS ==
    <<"p", "h", "i", "-", "4", "-", "r", "e", "a", "s", "o", "n", "i", "n", "g", "-",
      "p", "l", "u", "s">>
MODEL_MULTIMODAL_ALIAS ==
    <<"p", "h", "i", "-", "4", "-", "m", "u", "l", "t", "i", "m", "o", "d", "a", "l",
      "-", "i", "n", "s", "t", "r", "u", "c", "t">>

(***************************************************************************)
(* _infer_route                                                            *)
(***************************************************************************)
\* line 215
reasoning_keywords ==
    << <<"r", "e", "a", "s", "o", "n">>,
       <<"a", "n", "a", "l", "y">>,
       <<"p", "r", "o", "o", "f">>,
       <<"d", "e", "r", "i", "v", "e">>,
       <<"s", "t", "e", "p">>,
       <<"l", "o", "g", "i", "c">>,
       <<"m", "a", "t", "h">>,
       <<"e", "x", "p", "l", "a", "i", "n", " ", "w", "h", "y">> >>
\* line 216
multimodal_keywords ==
    << <<"i", "m", "a", "g", "e">>,
       <<"p", "h", "o", "t", "o">>,
       <<"p", "i", "c", "t", "u", "r", "e">>,
       <<"v", "i", "s", "i", "o", "n">>,
       <<"a", "u", "d", "i", "o">>,
       <<"v", "i", "d", "e", "o">> >>

\* the dict literal {MODEL_REASONING_ID: r, MODEL_MULTIMODAL_ID: m}, in hundredths
\* (a later key overrides an equal earlier one)
Probabilities(r, m) == (MODEL_MULTIMODAL_ID :> m) @@ (MODEL_REASONING_ID :> r)

\* the 5-tuple _infer_route returns; confidence in hundredths
RouteDecision(model, confidence, source, probs, top_k) ==
    [model |-> model, confidence |-> confidence, source |-> source,
     probabilities |-> probs, top_k_models |-> top_k]

\* the reasoning-keyword rule tried before the multimodal-keyword rule
InferRoute_ReasoningFirst(txt, img) ==
    LET text_lower == Lower(txt) IN
    IF img
    THEN RouteDecision(MODEL_MULTIMODAL_ID, 99, "shortcut", Probabilities(1, 99),
                       <<MODEL_MULTIMODAL_ID, MODEL_REASONING_ID>>)
    ELSE IF ContainsAny(text_lower, reasoning_keywords)
    THEN RouteDecision(MODEL_REASONING_ID, 88, "shortcut", Probabilities(88, 12),
                       <<MODEL_REASONING_ID, MODEL_MULTIMODAL_ID>>)
    ELSE IF ContainsAny(text_lower, multimodal_keywords)
    THEN RouteDecision(MODEL_MULTIMODAL_ID, 85, "shortcut", Probabilities(15, 85),
                       <<MODEL_MULTIMODAL_ID, MODEL_REASONING_ID>>)
    ELSE RouteDecision(MODEL_REASONING_ID, 65, "mlp_compat", Probabilities(65, 35),
                       <<MODEL_REASONING_ID, MODEL_MULTIMODAL_ID>>)

\* the fallback distribution written as 0.65 / 0.30
InferRoute_FallbackShort(txt, img) ==
    LET text_lower == Lower(txt) IN
    IF img
    THEN RouteDecision(MODEL_MULTIMODAL_ID, 99, "shortcut", Probabilities(1, 99),
                       <<MODEL_MULTIMODAL_ID, MODEL_REASONING_ID>>)
    ELSE IF ContainsAny(text_lower, multimodal_keywords)
    THEN RouteDecision(MODEL_MULTIMODAL_ID, 85, "shortcut", Probabilities(15, 85),
                       <<MODEL_MULTIMODAL_ID, MODEL_REASONING_ID>>)
    ELSE IF ContainsAny(text_lower, reasoning_keywords)
    THEN RouteDecision(MODEL_REASONING_ID, 88, "shortcut", Probabilities(88, 12),
                       <<MODEL_REASONING_ID, MODEL_MULTIMODAL_ID>>)
    ELSE RouteDecision(MODEL_REASONING_ID, 65, "mlp_compat", Probabilities(65, 30),
                       <<MODEL_REASONING_ID, MODEL_MULTIMODAL_ID>>)

\* lines 208-227
InferRoute(txt, img) ==
    LET text_lower == Lower(txt) IN
    IF img
    THEN RouteDecision(MODEL_MULTIMODAL_ID, 99, "shortcut", Probabilities(1, 99),
                       <<MODEL_MULTIMODAL_ID, MODEL_REASONING_ID>>)
    ELSE IF ContainsAny(text_lower, multimodal_keywords)
    THEN RouteDecision(MODEL_MULTIMODAL_ID, 85, "shortcut", Probabilities(15, 85),
                       <<MODEL_MULTIMODAL_ID, MODEL_REASONING_ID>>)
    ELSE IF ContainsAny(text_lower, reasoning_keywords)
    THEN RouteDecision(MODEL_REASONING_ID, 88, "shortcut", Probabilities(88, 12),
                       <<MODEL_REASONING_ID, MODEL_MULTIMODAL_ID>>)
    ELSE RouteDecision(MODEL_REASONING_ID, 65, "mlp_compat", Probabilities(65, 35),
                       <<MODEL_REASONING_ID, MODEL_MULTIMODAL_ID>>)

\* pieces the classifier texts are put together from: keywords in either case,
\* halves of keywords, and filler
Fragments ==
    { <<"i", "m", "a", "g", "e">>,
      <<"P", "H", "O", "T", "O">>,
      <<"V", "i", "d", "e", "o">>,
      <<"m", "a", "t", "h">>,
      <<"S", "t", "e", "p">>,
      <<"a", "n", "a">>,
      <<"l", "y">>,
      <<"e", "x", "p", "l", "a", "i", "n">>,
      <<" ">>,
      <<"w", "h", "y">>,
      <<"h", "e", "l", "l", "o">> }

\* every concatenation of at most MaxFrags fragments
Texts == { Concat(fs) : fs \in UNION { [1..k -> Fragments] : k \in 0..MaxFrags } }

\* the call _infer_route(text, has_image)
Classify ==
    /\ IsNone(decision)
    /\ decision' = Some(InferRoute(text, has_image))
    /\ UNCHANGED <<text, has_image>>

ClsInit ==
    /\ text \in Texts
    /\ has_image \in BOOLEAN
    /\ decision = None

\* no classifier call in this run
ClsIdle ==
    /\ text = <<>>
    /\ has_image = FALSE
    /\ decision = None

(***************************************************************************)
(* JSON / Python values.  A value is [t, s, n, kids]: t its type, s the     *)
(* characters of a string, n the digits of a number (<<5>>, or <<a, b>> for *)
(* the fraction a/b), kids the items of a list or the members of an object  *)
(* (each [k, v]; k is <<>> for a list item).                                *)
(* A string is a sequence of pieces: strings that come from a client, a     *)
(* backend or the configuration are split into single characters; a string  *)
(* literal of the source is kept as one piece.                              *)
(***************************************************************************)
JNull == [t |-> "null", s |-> <<>>, n |-> <<>>, kids |-> <<>>]
JBool(b) == [t |-> "bool", s |-> <<>>, n |-> <<IF b THEN 1 ELSE 0>>, kids |-> <<>>]
JNum(i) == [t |-> "num", s |-> <<>>, n |-> <<i>>, kids |-> <<>>]
JStr(chars) == [t |-> "str", s |-> chars, n |-> <<>>, kids |-> <<>>]
JList(items) ==
    [t |-> "list", s |-> <<>>, n |-> <<>>,
     kids |-> [i \in 1..Len(items) |-> [k |-> <<>>, v |-> items[i]]]]
\* a member whose key is a literal
Member(key, val) == [k |-> <<key>>, v |-> val]
JObj(members) == [t |-> "obj", s |-> <<>>, n |-> <<>>, kids |-> members]

\* isinstance(v, dict)
IsDict(v) == v.t = "obj"

\* bool(v)
Truthy(v) ==
    CASE v.t = "null" -> FALSE
      [] v.t = "bool" -> v.n = <<1>>
      [] v.t = "num"  -> v.n[1] # 0
      [] v.t = "str"  -> v.s # <<>>
      [] OTHER        -> v.kids # <<>>

\* hash(v) succeeds: lists and dicts are unhashable
Hashable(v) == v.t \notin {"list", "obj"}

HasKey(d, key) == \E i \in 1..Len(d.kids) : d.kids[i].k = <<key>>

\* d.get(key, default) on a dict (json.loads keeps the last of equal keys)
DictGet(d, key, default) ==
    IF HasKey(d, key)
    THEN d.kids[CHOOSE i \in 1..Len(d.kids) :
                    /\ d.kids[i].k = <<key>>
                    /\ \A j \in (i + 1)..Len(d.kids) : d.kids[j].k # <<key>>].v
    ELSE default

\* what an operation gives: a value, or the exception it raised
Ok(v) == [exc |-> "", v |-> v]
Raise(name) == [exc |-> name, v |-> JNull]

\* v.get(key, default): AttributeError unless v is a dict
PyGet(v, key, default) ==
    IF IsDict(v) THEN Ok(DictGet(v, key, default)) ELSE Raise("AttributeError")

\* v[0]
PyIndex0(v) ==
    CASE v.t = "list" -> IF v.kids = <<>> THEN Raise("IndexError") ELSE Ok(v.kids[1].v)
      [] v.t = "str"  -> IF v.s = <<>> THEN Raise("IndexError") ELSE Ok(JStr(<<v.s[1]>>))
      [] v.t = "obj"  -> Raise("KeyError")
      [] OTHER        -> Raise("TypeError")

(***************************************************************************)
(* resolve_backend                                                         *)
(***************************************************************************)
\* what resolve_backend gives: None, Some(url), or the TypeError of a set
\* membership test on an unhashable value
Resolved(exc, url) == [exc |-> exc, url |-> url]

\* x in {a, b} for a hashable x
InPair(x, a, b) == x.t = "str" /\ (x.s = a \/ x.s = b)

\* the names compared without regard to case
ResolveBackend_IgnoreCase(model_name) ==
    IF ~Hashable(model_name) THEN Resolved("TypeError", None)
    ELSE IF model_name.t = "str"
            /\ Lower(model_name.s) \in {Lower(MODEL_REASONING_ID), Lower(MODEL_REASONING_ALIAS)}
         THEN Resolved("", Some(REASONING_URL))
    ELSE IF model_name.t = "str"
            /\ Lower(model_name.s) \in {Lower(MODEL_MULTIMODAL_ID), Lower(MODEL_MULTIMODAL_ALIAS)}
         THEN Resolved("", Some(MULTIMODAL_URL))
    ELSE Resolved("", None)

\* lines 38-46
ResolveBackend(model_name) ==
    IF ~Hashable(model_name) THEN Resolved("TypeError", None)
    ELSE IF InPair(model_name, MODEL_REASONING_ID, MODEL_REASONING_ALIAS)
         THEN Resolved("", Some(REASONING_URL))
    ELSE IF InPair(model_name, MODEL_MULTIMODAL_ID, MODEL_MULTIMODAL_ALIAS)
         THEN Resolved("", Some(MULTIMODAL_URL))
    ELSE Resolved("", None)

(***************************************************************************)
(* Backend replies and _forward_json                                       *)
(***************************************************************************)
\* body bytes: those received from the network (the JSON document they
\* encode, or bytes that are no JSON), json.dumps(payload).encode(), and the
\* bytes of a static file
Bytes(doc) == [enc |-> "raw", valid |-> TRUE, doc |-> doc]
Garbage == [enc |-> "raw", valid |-> FALSE, doc |-> JNull]
Dumps(payload) == [enc |-> "dumps", valid |-> TRUE, doc |-> payload]
FileBytes == [enc |-> "file", valid |-> FALSE, doc |-> JNull]
NoBytes == [enc |-> "", valid |-> FALSE, doc |-> JNull]

\* an HTTP response of the backend (ctype: None when it sends no Content-Type)
HttpReply(status, ctype, body) ==
    [kind |-> "response", status |-> status, ctype |-> ctype, body |-> body]
\* no HTTP response: connection refused, timeout, DNS failure
Unreachable == [kind |-> "failure", status |-> 0, ctype |-> None, body |-> NoBytes]
\* no request was sent, so no answer either
NoReply == [kind |-> "", status |-> 0, ctype |-> None, body |-> NoBytes]

\* urlopen returns a 2xx response and raises HTTPError for any other status
Raises(r) == r.kind = "failure" \/ ~(200 <= r.status /\ r.status < 300)

(***************************************************************************)
(* _invoke_model                                                           *)
(***************************************************************************)
NoError == [kind |-> "", status |-> 0, name |-> <<>>]
\* f"unknown model: {model_name}", f"backend status {status}", str(exc)
ErrUnknownModel(name) == [kind |-> "unknown model", status |-> 0, name |-> name]
ErrBackendStatus(status) == [kind |-> "backend status", status |-> status, name |-> <<>>]
ErrException(exc) == [kind |-> "exception", status |-> 0, name |-> <<exc>>]

InvokeFailure(err) == [ok |-> FALSE, text |-> JNull, raw |-> JNull, error |-> err]
InvokeSuccess(text_out, decoded) ==
    [ok |-> TRUE, text |-> text_out, raw |-> decoded, error |-> NoError]

\* str(v) for a scalar v
PyStr(v) ==
    CASE v.t = "str"  -> v.s
      [] v.t = "null" -> <<"N", "o", "n", "e">>
      [] v.t = "bool" -> IF v.n = <<1>> THEN <<"T", "r", "u", "e">>
                         ELSE <<"F", "a", "l", "s", "e">>
      [] OTHER        -> IntChars(v.n[1])

\* a request sent to a backend
Forward(base, path, auth, body) == [base |-> base, path |-> path, auth |-> auth, body |-> body]
NoRequest == Forward("", <<>>, None, NoBytes)

\* lines 244-265: the chat payload
ChatPayload(model_name, txt, image_url, image_path) ==
    LET is_multimodal == model_name \in {MODEL_MULTIMODAL_ID, MODEL_MULTIMODAL_ALIAS}
        content ==
            IF is_multimodal /\ Truthy(image_url)
            THEN JList(<< JObj(<<Member("type", JStr(<<"text">>)), Member("text", JStr(txt))>>),
                          JObj(<<Member("type", JStr(<<"image_url">>)),
                                 Member("image_url", JObj(<<Member("url", image_url)>>))>>) >>)
            ELSE IF is_multimodal /\ Truthy(image_path)
            THEN JStr(txt \o <<"\n\nimage_path hint: ">> \o PyStr(image_path))
            ELSE JStr(txt)
    IN  JObj(<< Member("model", JStr(model_name)),
                Member("messages",
                       JList(<<JObj(<<Member("role", JStr(<<"user">>)),
                                      Member("content", content)>>)>>)),
                Member("max_tokens", JNum(256)) >>)

\* line 267: POST {backend}/v1/chat/completions
ChatRequest(backend, model_name, txt, image_url, image_path) ==
    Forward(backend, <<"/v1/chat/completions">>, None,
            Dumps(ChatPayload(model_name, txt, image_url, image_path)))

\* lines 270-281 on the decoded body
ExtractText(decoded) ==
    LET choices == PyGet(decoded, "choices", JList(<<JObj(<<>>)>>)) IN
    IF choices.exc # "" THEN InvokeFailure(ErrException(choices.exc))
    ELSE
    LET choice == PyIndex0(choices.v) IN
    IF choice.exc # "" THEN InvokeFailure(ErrException(choice.exc))
    ELSE
    LET message == IF IsDict(choice.v) THEN DictGet(choice.v, "message", JObj(<<>>))
                   ELSE JObj(<<>>)
        text_out == IF IsDict(message) THEN DictGet(message, "content", JStr(<<>>))
                    ELSE JStr(<<>>)
    IN  InvokeSuccess(text_out, decoded)

\* lines 239-283; model_name is a str, r the backend's answer to the request
InvokeModel(txt, model_name, image_url, image_path, r) ==
    LET backend == ResolveBackend(JStr(model_name)) IN
    IF IsNone(backend.url)
    THEN [sent |-> NoRequest, result |-> InvokeFailure(ErrUnknownModel(model_name))]
    ELSE
    LET req == ChatRequest(Val(backend.url), model_name, txt, image_url, image_path)
        result ==
            IF r.kind = "failure" THEN InvokeFailure(ErrException("URLError"))
            ELSE IF Raises(r) THEN InvokeFailure(ErrException("HTTPError"))
            ELSE IF r.status # 200 THEN InvokeFailure(ErrBackendStatus(r.status))
            ELSE IF ~r.body.valid THEN InvokeFailure(ErrException("JSONDecodeError"))
            ELSE ExtractText(r.body.doc)
    IN  [sent |-> req, result |-> result]

(***************************************************************************)
(* Inputs of the dispatch functions                                        *)
(***************************************************************************)
Chars_hi == <<"h", "i">>
Chars_url == <<"h", "t", "t", "p", ":", "/", "/", "x", "/", "a", ".", "p", "n", "g">>
Chars_path == <<"/", "t", "m", "p", "/", "a", ".", "p", "n", "g">>
Chars_unknown == <<"u", "n", "k", "n", "o", "w", "n", "-", "m", "o", "d", "e", "l">>

\* the four accepted names
ValidNames ==
    {MODEL_REASONING_ID, MODEL_REASONING_ALIAS, MODEL_MULTIMODAL_ID, MODEL_MULTIMODAL_ALIAS}

\* the accepted names, their case variants, and names that are none of them
ModelNames ==
    ValidNames
    \cup { Upper(m) : m \in ValidNames }
    \cup { Lower(m) : m \in ValidNames }
    \cup { m \o <<" ">> : m \in ValidNames }
    \cup { Chars_unknown, <<>> }

\* message objects, choice objects, choices values and whole documents a
\* backend may answer with
Messages ==
    { JObj(<<Member("content", JStr(Chars_hi))>>),
      JObj(<<Member("content", JNull)>>),
      JObj(<<Member("role", JStr(<<"a">>))>>),
      JStr(Chars_hi),
      JNull }
Choices ==
    { JObj(<<Member("message", m)>>) : m \in Messages }
    \cup { JObj(<<>>), JNum(5), JNull }
ChoicesValues ==
    { JList(<<c>>) : c \in Choices }
    \cup { JList(<<>>), JNull, JStr(Chars_hi), JStr(<<>>), JNum(3),
           JObj(<<Member("a", JNum(1))>>) }
Documents ==
    { JObj(<<Member("choices", cs)>>) : cs \in ChoicesValues }
    \cup { JObj(<<>>), JObj(<<Member("error", JStr(Chars_hi))>>), JList(<<>>), JStr(Chars_hi),
           JNum(5), JNull }

ReplyBodies == { Bytes(d) : d \in Documents } \cup { Garbage }
Replies ==
    { HttpReply(st, ct, b) :
        st \in {200, 201, 400, 404, 500, 503},
        ct \in {None, Some("application/json"), Some("text/plain")},
        b \in ReplyBodies }
    \cup { Unreachable }

\* the call resolve_backend(model_name)
Resolve ==
    /\ IsNone(resolved)
    /\ resolved' = Some(ResolveBackend(arg_model))
    /\ UNCHANGED <<arg_model, arg_text, arg_image_url, arg_image_path, reply, invoked>>

\* the call _invoke_model(text, model_name, image_url, image_path)
Invoke ==
    /\ IsNone(invoked)
    /\ arg_model.t = "str"
    /\ invoked' = Some(InvokeModel(arg_text, arg_model.s, arg_image_url, arg_image_path, reply))
    /\ UNCHANGED <<arg_model, arg_text, arg_image_url, arg_image_path, reply, resolved>>

DspInit ==
    /\ arg_model \in { JStr(m) : m \in ModelNames }
    /\ arg_text = Chars_hi
    /\ arg_image_url \in {JNull, JStr(Chars_url)}
    /\ arg_image_path \in {JNull, JStr(Chars_path)}
    /\ reply \in Replies
    /\ resolved = None
    /\ invoked = None

\* no dispatch call in this run
DspIdle ==
    /\ arg_model = JNull
    /\ arg_text = <<>>
    /\ arg_image_url = JNull
    /\ arg_image_path = JNull
    /\ reply = NoReply
    /\ resolved = None
    /\ invoked = None

(***************************************************************************)
(* HTTP handlers                                                           *)
(***************************************************************************)
P_healthz == <<"/", "h", "e", "a", "l", "t", "h", "z">>
P_health == <<"/", "h", "e", "a", "l", "t", "h">>
P_models == <<"/", "v", "1", "/", "m", "o", "d", "e", "l", "s">>
P_telemetry ==
    <<"/", "t", "e", "l", "e", "m", "e", "t", "r", "y", "/", "s", "n", "a", "p", "s", "h", "o", "t">>
P_root == <<"/">>
P_static == <<"/", "s", "t", "a", "t", "i", "c", "/">>
P_route == <<"/", "r", "o", "u", "t", "e">>
P_chat ==
    <<"/", "v", "1", "/", "c", "h", "a", "t", "/", "c", "o", "m", "p", "l", "e", "t", "i", "o", "n", "s">>
P_completions == <<"/", "v", "1", "/", "c", "o", "m", "p", "l", "e", "t", "i", "o", "n", "s">>

\* urllib.parse.urlparse(target).path for a target that starts with one "/"
\* and holds no ";": the part before the first "?" or "#"
RECURSIVE UrlPath(_)
UrlPath(target) ==
    IF target = <<>> \/ Head(target) \in {"?", "#"} THEN <<>>
    ELSE <<Head(target)>> \o UrlPath(Tail(target))

\* a Content-Length header: absent, or its value (an integer, or text that int() rejects)
NoLength == [kind |-> "absent", n |-> 0]
Length(n) == [kind |-> "int", n |-> n]
BadLength == [kind |-> "text", n |-> 0]

Request(method, target, clen, auth, body) ==
    [method |-> method, target |-> target, clen |-> clen, auth |-> auth, body |-> body]
NoReq == Request("", <<>>, NoLength, None, NoBytes)

Response(status, ctype, body) == [status |-> status, ctype |-> ctype, body |-> body]

\* lines 29-35
WriteJson(status, payload) == Response(status, "application/json", Dumps(payload))

\* {"error": message}
ErrorPayload(message) == JObj(<<Member("error", JStr(message))>>)

\* what a handler did: the response it wrote (None: it raised before writing
\* one) and the request it sent to a backend
Handled(resp, fwd) == [resp |-> resp, fwd |-> fwd]

\* lines 396-397
HandleHealth == WriteJson(200, JObj(<<Member("status", JStr(<<"ok">>))>>))

\* lines 384-394
ModelEntry(id, owner) ==
    JObj(<<Member("id", JStr(id)), Member("object", JStr(<<"model">>)),
           Member("owned_by", JStr(<<owner>>))>>)
HandleModels ==
    WriteJson(200,
        JObj(<< Member("object", JStr(<<"list">>)),
                Member("data", JList(<< ModelEntry(MODEL_REASONING_ID, "nvidia"),
                                        ModelEntry(MODEL_REASONING_ALIAS, "local"),
                                        ModelEntry(MODEL_MULTIMODAL_ID, "nvidia"),
                                        ModelEntry(MODEL_MULTIMODAL_ALIAS, "local") >>)) >>))

\* a float as a JSON number: the fraction q = <<n, d>>
JFloat(q) == [t |-> "num", s |-> <<>>, n |-> q, kids |-> <<>>]

\* an optional float as a JSON value
PercentJson(ret) == IF IsNone(ret) THEN JNull ELSE JFloat(Val(ret))

RECURSIVE SeqSum(_)
SeqSum(v) == IF v = <<>> THEN 0 ELSE Head(v) + SeqSum(Tail(v))
RECURSIVE SeqMax(_)
SeqMax(v) == IF Len(v) = 1 THEN v[1]
             ELSE LET m == SeqMax(Tail(v)) IN IF v[1] > m THEN v[1] ELSE m

\* a file of /sys holding a frequency in kHz: absent, present with text that
\* float() rejects, or present with a number
SysFile(kind, n) == [kind |-> kind, n |-> n]

\* what the host hands to the other collectors during one snapshot:
\*   meminfo     None (unreadable), or Some([total, available]), each None
\*               or Some(kB) as the MemTotal / MemAvailable lines give them
\*   gpu_util    None (nvidia-smi fails), or Some(the values it prints)
\*   cpu_mhz     None (/proc/cpuinfo unreadable), or Some(its "cpu MHz" values)
\*   cur_freq    the two current-frequency files, in the order they are tried
\*   max_freq    cpuinfo_max_freq;  scaling_max: scaling_max_freq
\*   gpu_clocks  None (nvidia-smi fails), or Some(the lines it prints, each
\*               the sequence of its comma-separated numbers)
\*   ts          int(time.time())
HostReading(meminfo, gpu_util, cpu_mhz, cur_freq, max_freq, scaling_max, gpu_clocks, ts) ==
    [meminfo |-> meminfo, gpu_util |-> gpu_util, cpu_mhz |-> cpu_mhz, cur_freq |-> cur_freq,
     max_freq |-> max_freq, scaling_max |-> scaling_max, gpu_clocks |-> gpu_clocks, ts |-> ts]
NoHost ==
    LET absent == SysFile("absent", 0) IN
    HostReading(None, None, None, <<absent, absent>>, absent, absent, None, 0)

\* lines 53-72: (memory_percent, memory_used_gb, memory_total_gb)
CollectLocalMemoryStats(host) ==
    LET none == [percent |-> None, used_gb |-> None, total_gb |-> None] IN
    IF IsNone(host.meminfo) THEN none
    ELSE
    LET mi == Val(host.meminfo) IN
    IF IsNone(mi.total) \/ Val(mi.total) = 0 \/ IsNone(mi.available) THEN none
    ELSE
    LET mem_total_kb == Val(mi.total)
        mem_available_kb == Val(mi.available)
    IN  [percent |-> Some(NormalizePercent(mem_total_kb - mem_available_kb, mem_total_kb)),
         used_gb |-> Some(Frac(mem_total_kb - mem_available_kb, 1024 * 1024)),
         total_gb |-> Some(Frac(mem_total_kb, 1024 * 1024))]

\* lines 75-93
CollectLocalGpuPercent(host) ==
    IF IsNone(host.gpu_util) \/ Val(host.gpu_util) = <<>> THEN None
    ELSE Some(NormalizePercent(SeqMax(Val(host.gpu_util)), 100))

\* lines 135-178: (current_mhz, max_mhz)
CollectLocalCpuClockStats(host) ==
    LET none == [current |-> None, max |-> None] IN
    IF IsNone(host.cpu_mhz) \/ host.max_freq.kind = "bad" THEN none
    ELSE
    LET current_values == Val(host.cpu_mhz)
        readable == SelectSeq(host.cur_freq, LAMBDA f : f.kind = "khz")
        current_mhz ==
            IF current_values # <<>>
            THEN Some(Frac(SeqSum(current_values), Len(current_values)))
            ELSE IF readable # <<>> THEN Some(Frac(readable[1].n, 1000))
            ELSE None
        max_mhz ==
            IF host.max_freq.kind = "khz" THEN Some(Frac(host.max_freq.n, 1000))
            ELSE IF host.scaling_max.kind = "khz" THEN Some(Frac(host.scaling_max.n, 1000))
            ELSE current_mhz
    IN  [current |-> current_mhz, max |-> max_mhz]

\* lines 181-205: (current_mhz, max_mhz) of the first GPU
CollectLocalGpuClockStats(host) ==
    LET none == [current |-> None, max |-> None] IN
    IF IsNone(host.gpu_clocks) \/ Val(host.gpu_clocks) = <<>> THEN none
    ELSE
    LET first == Val(host.gpu_clocks)[1] IN
    IF Len(first) < 2 THEN none
    ELSE [current |-> Some(<<first[1], 1>>), max |-> Some(<<first[2], 1>>)]

\* lines 332-357; local_cpu_percent is what _collect_local_cpu_percent returned
HandleTelemetrySnapshot(local_cpu_percent, host) ==
    LET mem == CollectLocalMemoryStats(host)
        local_gpu_percent == CollectLocalGpuPercent(host)
        cpu_clock == CollectLocalCpuClockStats(host)
        gpu_clock == CollectLocalGpuClockStats(host)
    IN
    Handled(
        Some(WriteJson(200,
            JObj(<< Member("ok", JBool(TRUE)),
                    Member("source", JStr(<<"local_system">>)),
                    Member("memory_percent", PercentJson(mem.percent)),
                    Member("memory_used_gb", PercentJson(mem.used_gb)),
                    Member("memory_total_gb", PercentJson(mem.total_gb)),
                    Member("gpu_percent", PercentJson(local_gpu_percent)),
                    Member("cpu_percent", PercentJson(local_cpu_percent)),
                    Member("cpu_clock_mhz", PercentJson(cpu_clock.current)),
                    Member("cpu_clock_max_mhz", PercentJson(cpu_clock.max)),
                    Member("gpu_clock_mhz", PercentJson(gpu_clock.current)),
                    Member("gpu_clock_max_mhz", PercentJson(gpu_clock.max)),
                    Member("auth_mode", JStr(<<"local_only">>)),
                    Member("ts", JNum(host.ts)) >>))),
        NoRequest)

\* what the file system holds for a static path: the resolved path lies
\* outside the static root, no such file, or a file and the type guessed for it
Fs(kind, ctype) == [kind |-> kind, ctype |-> ctype]
FsOutcomes ==
    { Fs("outside", None), Fs("missing", None), Fs("file", None), Fs("file", Some("text/html")) }

\* lines 359-382
ServeStatic(requested_path, fs) ==
    IF requested_path # P_root /\ ~StartsWith(requested_path, P_static)
    THEN WriteJson(404, ErrorPayload(<<"Not Found">>))
    ELSE IF requested_path # P_root /\ fs.kind = "outside"
    THEN WriteJson(403, ErrorPayload(<<"Forbidden">>))
    ELSE IF fs.kind # "file"
    THEN WriteJson(404, ErrorPayload(<<"Not Found">>))
    ELSE Response(200, IF IsNone(fs.ctype) THEN "application/octet-stream" ELSE Val(fs.ctype),
                  FileBytes)


\* lines 399-414; local_cpu_percent and host are read by the telemetry
\* handler only, fs by the static handler only
DoGet(target, local_cpu_percent, host, fs) ==
    LET path == UrlPath(target) IN
    IF path \in {P_healthz, P_health} THEN Handled(Some(HandleHealth), NoRequest)
    ELSE IF path = P_models THEN Handled(Some(HandleModels), NoRequest)
    ELSE IF path = P_telemetry THEN HandleTelemetrySnapshot(local_cpu_percent, host)
    ELSE IF path = P_root \/ StartsWith(path, P_static)
         THEN Handled(Some(ServeStatic(path, fs)), NoRequest)
    ELSE Handled(Some(WriteJson(404, ErrorPayload(<<"Not Found">>))), NoRequest)

\* an error of _invoke_model as text; str(exc) is kept as the exception's class
ErrorText(err) ==
    CASE err.kind = "unknown model"  -> <<"unknown model: ">> \o err.name
      [] err.kind = "backend status" -> <<"backend status ">> \o IntChars(err.status)
      [] OTHER                       -> err.name


\* lines 287-330
HandleRoute(payload, r) ==
    LET got == PyGet(payload, "text", JStr(<<>>)) IN
    IF got.exc # "" THEN Handled(None, NoRequest)
    ELSE
    LET txt == Strip(PyStr(got.v)) IN
    IF txt = <<>> THEN Handled(Some(WriteJson(400, ErrorPayload(<<"text is required">>))),
                               NoRequest)
    ELSE
    LET image_url == DictGet(payload, "image_url", JNull)
        image_path == DictGet(payload, "image_path", JNull)
        img == Truthy(DictGet(payload, "has_image", JNull)) \/ Truthy(image_url)
                   \/ Truthy(image_path)
        d == InferRoute(txt, img)
        model_alias == IF d.model = MODEL_MULTIMODAL_ID THEN MODEL_MULTIMODAL_ALIAS
                       ELSE MODEL_REASONING_ALIAS
        worker == InvokeModel(txt, d.model, image_url, image_path, r)
        res == worker.result
        worker_status == IF res.ok THEN <<"ok">> ELSE <<"error: ">> \o ErrorText(res.error)
        worker_response ==
            IF res.ok
            THEN JObj(<<Member("details",
                    JObj(<< Member("target_model", JStr(d.model)),
                            Member("target_alias", JStr(model_alias)),
                            Member("result",
                                   JObj(<< Member("text", res.text),
                                           Member("used_precision", JStr(<<"runtime">>)),
                                           Member("raw", res.raw) >>)) >>))>>)
            ELSE JObj(<<Member("details",
                    JObj(<<Member("error", JStr(ErrorText(res.error)))>>))>>)
    IN  Handled(
            Some(WriteJson(200,
                JObj(<< Member("model", JStr(d.model)),
                        Member("confidence", JFloat(<<d.confidence, 100>>)),
                        Member("source", JStr(<<d.source>>)),
                        Member("probabilities",
                               JObj(<< [k |-> MODEL_REASONING_ID,
                                        v |-> JFloat(<<d.probabilities[MODEL_REASONING_ID], 100>>)],
                                       [k |-> MODEL_MULTIMODAL_ID,
                                        v |-> JFloat(<<d.probabilities[MODEL_MULTIMODAL_ID], 100>>)] >>)),
                        Member("top_k_models",
                               JList([i \in 1..Len(d.top_k_models) |-> JStr(d.top_k_models[i])])),
                        Member("dispatch_target", JStr(model_alias)),
                        Member("dispatch_backend", JStr(<<"trtllm-serve">>)),
                        Member("worker_invoked", JBool(TRUE)),
                        Member("worker_status", JStr(worker_status)),
                        Member("worker_response", worker_response) >>))),
            worker.sent)

\* the unknown-path answer of do_GET given by do_POST too
PostUnsupported_NotFound == WriteJson(404, ErrorPayload(<<"Not Found">>))

\* line 420
PostUnsupported == WriteJson(404, ErrorPayload(<<"Unsupported path">>))

\* lines 446-450
UnknownModelMessage ==
    <<"Unknown model. Use one of: ">> \o MODEL_REASONING_ID \o <<", ">>
        \o MODEL_REASONING_ALIAS \o <<", ">> \o MODEL_MULTIMODAL_ID \o <<", ">>
        \o MODEL_MULTIMODAL_ALIAS

\* headers.get("Content-Type", "application/json")
ContentTypeOf(r) == IF IsNone(r.ctype) THEN "application/json" ELSE Val(r.ctype)

\* an upstream HTTP error answered with the gateway's own 502
Relay_Own502(r) ==
    IF r.kind = "failure" \/ Raises(r)
    THEN WriteJson(502, ErrorPayload(<<"Upstream failure: ", "URLError">>))
    ELSE Response(r.status, ContentTypeOf(r), r.body)

\* lines 463-479: the backend's answer r written to the client; str(exc) is
\* kept as the exception's class
Relay(r) ==
    IF r.kind = "failure"
    THEN WriteJson(502, ErrorPayload(<<"Upstream failure: ", "URLError">>))
    ELSE IF Raises(r)
    THEN Response(r.status, ContentTypeOf(r), r.body)
    ELSE Response(r.status, ContentTypeOf(r), r.body)

\* lines 435-479
HandlePassthrough(req, path, payload, r) ==
    LET got == PyGet(payload, "model", JNull) IN
    IF got.exc # "" THEN Handled(None, NoRequest)
    ELSE IF ~Truthy(got.v)
    THEN Handled(Some(WriteJson(400, ErrorPayload(<<"Request must include model">>))),
                 NoRequest)
    ELSE
    LET backend == ResolveBackend(got.v) IN
    IF backend.exc # "" THEN Handled(None, NoRequest)
    ELSE IF IsNone(backend.url)
    THEN Handled(Some(WriteJson(400, ErrorPayload(UnknownModelMessage))), NoRequest)
    ELSE Handled(Some(Relay(r)),
                 Forward(Val(backend.url), path,
                         IF ~IsNone(req.auth) /\ Val(req.auth) # "" THEN req.auth ELSE None,
                         req.body))

\* lines 416-479
DoPost(req, r) ==
    LET path == UrlPath(req.target) IN
    IF path \notin {P_chat, P_completions, P_route}
    THEN Handled(Some(PostUnsupported), NoRequest)
    ELSE IF req.clen.kind = "text"
    THEN Handled(Some(WriteJson(400, ErrorPayload(<<"Invalid JSON payload">>))), NoRequest)
    ELSE
    LET body == IF req.clen.kind = "int" /\ req.clen.n > 0 THEN req.body
                ELSE Bytes(JObj(<<>>))
    IN
    IF ~body.valid
    THEN Handled(Some(WriteJson(400, ErrorPayload(<<"Invalid JSON payload">>))), NoRequest)
    ELSE IF path = P_route THEN HandleRoute(body.doc, r)
    ELSE HandlePassthrough([req EXCEPT !.body = body], path, body.doc, r)

(***************************************************************************)
(* Requests and environment of the HTTP server                             *)
(***************************************************************************)

\* the paths the handlers know
KnownPaths ==
    { P_healthz, P_health, P_models, P_telemetry, P_root,
      P_static \o <<"a", "p", "p", ".", "j", "s">>,
      P_static \o <<".", ".", "/", "r", "o", "u", "t", "e", "r", ".", "p", "y">>,
      P_route, P_chat, P_completions }

\* request targets: the known paths, some of them also with a query string,
\* with one more character and in upper case, and paths no handler knows
Targets ==
    KnownPaths
    \cup { p \o <<"?", "p", "r", "o", "b", "e", "=", "1">> : p \in {P_health, P_chat} }
    \cup { p \o <<"x">> : p \in {P_healthz, P_models, P_route} }
    \cup { Upper(p) : p \in {P_health, P_chat} }
    \cup { <<"/", "n", "o", "p", "e">>, <<"/", "s", "t", "a", "t", "i", "c">> }

\* JSON bodies for the explicit-model endpoints: the model member absent, of
\* every JSON type, an accepted name, or a string that is none
ModelValues ==
    { JStr(m) : m \in ValidNames }
    \cup { JStr(Chars_unknown), JStr(Upper(MODEL_REASONING_ALIAS)), JStr(<<>>), JNull,
           JNum(0), JNum(5), JBool(FALSE), JList(<<>>), JList(<<JStr(MODEL_REASONING_ID)>>),
           JObj(<<Member("id", JStr(MODEL_REASONING_ID))>>) }
PassPayloads ==
    { JObj(<<Member("model", m), Member("prompt", JStr(Chars_hi))>>) : m \in ModelValues }
    \cup { JObj(<<Member("prompt", JStr(Chars_hi))>>), JObj(<<>>) }

\* JSON bodies for /route: the text absent, blank, a number or a sentence,
\* and the sentence with each image member
OneOrNone(key, vals) == { <<Member(key, v)>> : v \in vals } \cup { <<>> }
RoutePayloads ==
    { JObj(tm) :
        tm \in OneOrNone("text",
                 { JStr(<<"d", "e", "s", "c", "r", "i", "b", "e", " ", "P", "H", "O", "T", "O">>),
                   JStr(<<" ", "\n">>), JNum(5) }) }
    \cup { JObj(<<Member("text", JStr(Chars_hi))>> \o im) :
             im \in OneOrNone("has_image", {JBool(TRUE), JBool(FALSE)})
                    \cup OneOrNone("image_url", {JStr(Chars_url)})
                    \cup OneOrNone("image_path", {JStr(Chars_path)}) }

\* JSON bodies that are no object
OtherPayloads == { JList(<<>>), JStr(Chars_hi), JNull, JNum(5) }

\* POST requests.  A positive Content-Length is the length of the body sent.
PostRequests ==
    { Request("POST", P_chat, Length(1), None, Bytes(b)) :
        b \in PassPayloads \cup OtherPayloads }
    \cup { Request("POST", t, Length(1), Some(a), Bytes(b)) :
             t \in {P_chat, P_completions}, a \in {"", "Bearer k"},
             b \in { JObj(<<Member("model", JStr(m)), Member("prompt", JStr(Chars_hi))>>) :
                       m \in {MODEL_REASONING_ALIAS, MODEL_MULTIMODAL_ID} } }
    \cup { Request("POST", P_completions, Length(1), None, Bytes(b)) :
             b \in { JObj(<<Member("model", JStr(Chars_unknown))>>), JObj(<<>>),
                      JObj(<<Member("model", JList(<<JStr(MODEL_REASONING_ID)>>))>>) } }
    \cup { Request("POST", P_route, Length(1), None, Bytes(b)) :
             b \in RoutePayloads \cup OtherPayloads }
    \cup { Request("POST", P_chat, c, None, b) :
             c \in {NoLength, Length(0), BadLength, Length(1)},
             b \in {Bytes(JObj(<<Member("model", JStr(MODEL_REASONING_ID)),
                                 Member("text", JStr(Chars_hi))>>)), Garbage} }
    \cup { Request("POST", t, Length(1), None,
                   Bytes(JObj(<<Member("model", JStr(MODEL_REASONING_ID)),
                                Member("text", JStr(Chars_hi))>>))) : t \in Targets }

\* what a backend answers while the server handles a request: a chat
\* completion, an error page, each with or without a Content-Type, a 200
\* whose body is no JSON, or no answer at all
HttpReplies ==
    { HttpReply(200, ct,
                Bytes(JObj(<<Member("choices",
                    JList(<<JObj(<<Member("message",
                        JObj(<<Member("content", JStr(Chars_hi))>>))>>)>>))>>))) :
        ct \in {None, Some("application/json")} }
    \cup { HttpReply(st, ct, Garbage) : st \in {404, 500}, ct \in {None, Some("text/plain")} }
    \cup { HttpReply(200, None, Garbage), Unreachable }

\* hosts: no source answers; every source answers; no nvidia-smi and no
\* cpufreq directory; no "cpu MHz" lines, the first current-frequency file
\* unreadable, nvidia-smi printing nothing or a single number, MemTotal 0;
\* cpuinfo_max_freq unreadable and no MemAvailable line
HostReadings ==
    LET absent == SysFile("absent", 0)
        bad == SysFile("bad", 0)
        mem(total, available) == Some([total |-> total, available |-> available])
    IN
    { HostReading(None, None, Some(<<>>), <<absent, absent>>, absent, absent, None, 1),
      HostReading(mem(Some(2097152), Some(1048576)), Some(<<7, 30>>), Some(<<1800, 2200>>),
                  <<SysFile("khz", 1900000), SysFile("khz", 1900000)>>,
                  SysFile("khz", 2400000), SysFile("khz", 2300000),
                  Some(<< <<1500, 2100>>, <<300, 2100>> >>), 2),
      HostReading(mem(Some(4194304), Some(1048576)), None, Some(<<1800>>),
                  <<absent, absent>>, absent, absent, None, 3),
      HostReading(mem(Some(0), Some(0)), Some(<<>>), Some(<<>>),
                  <<bad, SysFile("khz", 1200000)>>, absent, SysFile("khz", 1500000),
                  Some(<< <<1500>> >>), 4),
      HostReading(mem(Some(2097152), None), Some(<<250>>), Some(<<1800>>),
                  <<absent, absent>>, bad, absent, Some(<<>>), 5) }

\* the request threads that can run at once
Handlers == {1, 2}

\* a thread whose handler has returned ends; the next request is served by
\* the first thread that is free or has ended
FreeSlots == { h \in Handlers : stage[h] \in {"free", "done"} }
NextSlot == CHOOSE h \in FreeSlots : \A g \in FreeSlots : h <= g
Ended(f, blank) == [h \in Handlers |-> IF stage[h] = "done" THEN blank ELSE f[h]]

\* thread h is now at st with this request, forward, backend answer and response;
\* the threads that had ended are gone
Exchange(h, st, req, fwd, r, resp) ==
    /\ stage' = [Ended(stage, "free") EXCEPT ![h] = st]
    /\ request' = [Ended(request, NoReq) EXCEPT ![h] = req]
    /\ forwarded' = [Ended(forwarded, NoRequest) EXCEPT ![h] = fwd]
    /\ upstream' = [Ended(upstream, NoReply) EXCEPT ![h] = r]
    /\ response' = [Ended(response, None) EXCEPT ![h] = resp]

\* do_GET on a drawn target, up to the response it writes or, for the
\* telemetry snapshot, up to its call of _collect_local_cpu_percent (whose
\* steps are those of TelStep); the file system is read by the static handler
Get ==
    /\ served < MaxRequests
    /\ FreeSlots # {}
    /\ \E target \in Targets :
         LET h == NextSlot
             path == UrlPath(target)
             req == Request("GET", target, NoLength, None, NoBytes)
             files == IF StartsWith(path, P_static) THEN FsOutcomes
                      ELSE IF path = P_root THEN FsOutcomes \ {Fs("outside", None)}
                      ELSE {Fs("missing", None)}
         IN  IF path = P_telemetry
             THEN /\ Exchange(h, "sampling", req, NoRequest, NoReply, None)
                  /\ quota' = [quota EXCEPT ![h] = 1]
                  /\ UNCHANGED <<prev_total, prev_idle, active, pc, loc, calls>>
             ELSE /\ \E fs \in files :
                       Exchange(h, "done", req, NoRequest, NoReply,
                                DoGet(target, None, NoHost, fs).resp)
                  /\ UNCHANGED telvars
    /\ served' = served + 1
    /\ UNCHANGED <<clsvars, dspvars>>

\* the rest of _handle_telemetry_snapshot once _collect_local_cpu_percent has
\* returned to thread h: the response is written
Snapshot(h) ==
    /\ stage[h] = "sampling"
    /\ quota[h] = 0
    /\ pc[h] = "idle"
    /\ \E host \in HostReadings :
         Exchange(h, "done", request[h], NoRequest, NoReply,
                  DoGet(request[h].target, calls[h][1].ret, host, Fs("missing", None)).resp)
    /\ calls' = [calls EXCEPT ![h] = <<>>]
    /\ UNCHANGED <<prev_total, prev_idle, active, quota, pc, loc, served, clsvars, dspvars>>

\* do_POST on a drawn request, up to the response it writes or up to the
\* request it sends to a backend (urlopen, lines 234 and 464); what it sends
\* does not depend on the answer
Post ==
    /\ served < MaxRequests
    /\ FreeSlots # {}
    /\ \E req \in PostRequests :
         LET h == NextSlot
             d == DoPost(req, Unreachable)
         IN  IF d.fwd # NoRequest
             THEN Exchange(h, "upstream", req, d.fwd, NoReply, None)
             ELSE Exchange(h, "done", req, NoRequest, NoReply, d.resp)
    /\ served' = served + 1
    /\ UNCHANGED <<telvars, clsvars, dspvars>>

\* the backend answers thread h (or the connection fails) and do_POST runs to
\* its end
Answer(h) ==
    /\ stage[h] = "upstream"
    /\ \E r \in IF UrlPath(request[h].target) # P_route THEN HttpReplies
                ELSE { x \in HttpReplies : IsNone(x.ctype) } :
         Exchange(h, "done", request[h], forwarded[h], r, DoPost(request[h], r).resp)
    /\ UNCHANGED <<served, telvars, clsvars, dspvars>>

\* line 486: the server starts with no request thread
HttpInit ==
    /\ stage = [h \in Handlers |-> "free"]
    /\ request = [h \in Handlers |-> NoReq]
    /\ forwarded = [h \in Handlers |-> NoRequest]
    /\ upstream = [h \in Handlers |-> NoReply]
    /\ response = [h \in Handlers |-> None]
    /\ served = 0

(***************************************************************************)
(* Specifications                                                          *)
(***************************************************************************)
\* one thread, sample calls one after the other
InitSeq == TelInit({1}, SeqCalls) /\ ClsIdle /\ DspIdle /\ HttpInit
NextSeq == TelStep /\ UNCHANGED <<clsvars, dspvars, httpvars>>
SpecSeq == InitSeq /\ [][NextSeq]_vars

\* two request threads of the ThreadingHTTPServer inside the sampler at once
InitCpu == TelInit(Handlers, ConcCalls) /\ ClsIdle /\ DspIdle /\ HttpInit
NextCpu == TelStep /\ UNCHANGED <<clsvars, dspvars, httpvars>>
SpecCpu == InitCpu /\ [][NextCpu]_vars

\* one call of the classifier on a drawn text
InitClassify == TelInit({}, 0) /\ ClsInit /\ DspIdle /\ HttpInit
NextClassify == Classify /\ UNCHANGED <<telvars, dspvars, httpvars>>
SpecClassify == InitClassify /\ [][NextClassify]_vars

\* one call of resolve_backend and one of _invoke_model on drawn arguments
InitDispatch == TelInit({}, 0) /\ ClsIdle /\ DspInit /\ HttpInit
NextDispatch ==
    \/ Resolve /\ UNCHANGED <<telvars, clsvars, httpvars>>
    \/ Invoke /\ UNCHANGED <<telvars, clsvars, httpvars>>
SpecDispatch == InitDispatch /\ [][NextDispatch]_vars

\* the server handling requests on concurrent threads
InitHttp == TelInit(Handlers, 0) /\ ClsIdle /\ DspIdle /\ HttpInit
NextHttp ==
    \/ Get
    \/ \E h \in Handlers : Snapshot(h)
    \/ Post
    \/ \E h \in Handlers : Answer(h)
    \/ TelStep /\ UNCHANGED <<clsvars, dspvars, httpvars>>
SpecHttp == InitHttp /\ [][NextHttp]_vars

(***************************************************************************)
(* Claims about the telemetry sampler                                      *)
(***************************************************************************)
Quiescent == \A t \in active : pc[t] = "idle"

\* a returned cpu_percent is null or lies in [0, 100]
InRange(ret) == IsNone(ret) \/ (Val(ret)[1] >= 0 /\ Val(ret)[1] <= 100 * Val(ret)[2])

\* some interleaving of thread 1's and thread 2's completed calls that, run one
\* whole call at a time from st, returns what each call returned and ends in the
\* stored baseline
RECURSIVE SerialFrom(_, _, _)
SerialFrom(st, i, j) ==
    IF i > Len(calls[1]) /\ j > Len(calls[2])
    THEN st = CpuState(prev_total, prev_idle)
    ELSE \/ /\ i <= Len(calls[1])
            /\ LET r == SerialSample(st, calls[1][i].line)
               IN  r.ret = calls[1][i].ret /\ SerialFrom(r.st, i + 1, j)
         \/ /\ j <= Len(calls[2])
            /\ LET r == SerialSample(st, calls[2][j].line)
               IN  r.ret = calls[2][j].ret /\ SerialFrom(r.st, i, j + 1)

\* C1: concurrent sample calls behave like some serial execution: every
\* returned cpu_percent is null or within [0,100], and once no call is in
\* progress the returned values and the stored baseline are those of the calls
\* run one after the other in some order.
C1_SerialEquivalent ==
    /\ \A t \in active : \A k \in 1..Len(calls[t]) : InRange(calls[t][k].ret)
    /\ (active = {1, 2} /\ Quiescent) => SerialFrom(CpuState(None, None), 1, 1)

\* C8: a call whose total_delta is <= 0 returns null, and no step of any call
\* lowers the stored prev_total.
C8_BaselineNeverRegresses ==
    [][ /\ \A t \in active :
              (pc[t] = "store_idle" /\ pc'[t] = "idle" /\ loc[t].total_delta <= 0)
                  => IsNone(calls'[t][Len(calls'[t])].ret)
        /\ (~IsNone(prev_total) /\ ~IsNone(prev_total'))
              => Val(prev_total') >= Val(prev_total) ]_vars

\* sum of the first eight counters of a well-formed line, and idle + iowait
SumFirst8(v) == v[1] + v[2] + v[3] + v[4] + v[5] + v[6] + v[7] + v[8]

\* C9: the first sample call after process start returns null, and when it
\* has read the counters the baseline holds exactly the total and the
\* idle + iowait of that reading once the call has returned.
C9_FirstCallSeeds ==
    \A t \in active :
        /\ Len(calls[t]) >= 1 /\ active = {t} => IsNone(calls[t][1].ret)
        /\ (active = {t} /\ Len(calls[t]) = 1 /\ pc[t] = "idle" /\ ParseOk(calls[t][1].line))
              => LET v == calls[t][1].line.vals
                 IN  /\ prev_total = Some(SumFirst8(v))
                     /\ prev_idle = Some(v[4] + v[5])

\* the first call has returned after reading counters with a nonzero iowait
C9_Witness ==
    /\ active = {1}
    /\ Len(calls[1]) = 1
    /\ pc[1] = "idle"
    /\ ParseOk(calls[1][1].line)
    /\ calls[1][1].line.vals[5] > 0
    /\ ~IsNone(prev_total)

(***************************************************************************)
(* Claims about the classifier                                             *)
(***************************************************************************)
HasMultimodalKeyword(s) == ContainsAny(Lower(s), multimodal_keywords)
HasReasoningKeyword(s) == ContainsAny(Lower(s), reasoning_keywords)

\* C2: the decision is that of the first matching rule in the order image,
\* multimodal keyword, reasoning keyword, fallback: an image gives multimodal
\* at 0.99 whatever the text; without an image a multimodal keyword gives
\* multimodal, 0.85, shortcut even beside a reasoning keyword; only a text
\* without multimodal keyword gives reasoning (0.88 shortcut on a reasoning
\* keyword, else 0.65 mlp_compat).
C2_FirstMatchWins ==
    ~IsNone(decision) =>
        LET d == Val(decision) IN
        /\ has_image => (d.model = MODEL_MULTIMODAL_ID /\ d.confidence = 99)
        /\ (~has_image /\ HasMultimodalKeyword(text))
              => (d.model = MODEL_MULTIMODAL_ID /\ d.confidence = 85 /\ d.source = "shortcut")
        /\ (~has_image /\ ~HasMultimodalKeyword(text) /\ HasReasoningKeyword(text))
              => (d.model = MODEL_REASONING_ID /\ d.confidence = 88 /\ d.source = "shortcut")
        /\ (~has_image /\ ~HasMultimodalKeyword(text) /\ ~HasReasoningKeyword(text))
              => (d.model = MODEL_REASONING_ID /\ d.confidence = 65 /\ d.source = "mlp_compat")
        /\ d.model = MODEL_REASONING_ID => (~has_image /\ ~HasMultimodalKeyword(text))

\* a text with an upper-case multimodal keyword and a reasoning keyword, no
\* image, has been classified
C2_Witness ==
    /\ ~IsNone(decision)
    /\ ~has_image
    /\ text # Lower(text)
    /\ HasMultimodalKeyword(text)
    /\ ~ContainsAny(text, multimodal_keywords)
    /\ HasReasoningKeyword(text)
    /\ Val(decision).model = MODEL_MULTIMODAL_ID

\* C6: every decision's probability distribution has exactly the two model
\* ids as keys and its values sum to 1.0 (100 hundredths).
C6_DistributionSumsToOne ==
    ~IsNone(decision) =>
        LET pr == Val(decision).probabilities IN
        /\ DOMAIN pr = {MODEL_REASONING_ID, MODEL_MULTIMODAL_ID}
        /\ Cardinality(DOMAIN pr) = 2
        /\ pr[MODEL_REASONING_ID] + pr[MODEL_MULTIMODAL_ID] = 100

\* the fallback rule has produced a decision
C6_Witness ==
    /\ ~IsNone(decision)
    /\ Val(decision).source = "mlp_compat"
    /\ text # <<>>
    /\ DOMAIN Val(decision).probabilities = {MODEL_REASONING_ID, MODEL_MULTIMODAL_ID}

(***************************************************************************)
(* Claims about the resolver and the auto-route invoke                     *)
(***************************************************************************)
\* C5: resolve is an exact-match lookup over four strings: the reasoning id
\* and alias give the reasoning backend, the multimodal id and alias give the
\* multimodal backend, and every other string, case variants of the four
\* included, gives NotFound.
C5_ExactLookup ==
    (~IsNone(resolved) /\ arg_model.t = "str") =>
        LET r == Val(resolved)
            name == arg_model.s
        IN  /\ r.exc = ""
            /\ name \in {MODEL_REASONING_ID, MODEL_REASONING_ALIAS}
                  => r.url = Some("http://127.0.0.1:8355")
            /\ name \in {MODEL_MULTIMODAL_ID, MODEL_MULTIMODAL_ALIAS}
                  => r.url = Some("http://127.0.0.1:8356")
            /\ name \notin {MODEL_REASONING_ID, MODEL_REASONING_ALIAS,
                            MODEL_MULTIMODAL_ID, MODEL_MULTIMODAL_ALIAS}
                  => IsNone(r.url)

\* a case variant of an accepted name has been resolved to NotFound
C5_Witness ==
    /\ ~IsNone(resolved)
    /\ arg_model.t = "str"
    /\ arg_model.s \notin ValidNames
    /\ Lower(arg_model.s) \in { Lower(m) : m \in ValidNames }
    /\ IsNone(Val(resolved).url)

\* choices[0].message.content of an object when every step is there, else ""
ContentOrEmpty(doc) ==
    LET choices == DictGet(doc, "choices", JNull) IN
    IF choices.t = "list" /\ choices.kids # <<>>
       /\ IsDict(choices.kids[1].v) /\ HasKey(choices.kids[1].v, "message")
       /\ IsDict(DictGet(choices.kids[1].v, "message", JNull))
       /\ HasKey(DictGet(choices.kids[1].v, "message", JNull), "content")
    THEN DictGet(DictGet(choices.kids[1].v, "message", JNull), "content", JNull)
    ELSE JStr(<<>>)

\* C10: when the backend answers 200 with a JSON object whose choices member
\* is missing or a list, the invoke succeeds and its text is
\* choices[0].message.content when present and the empty string otherwise.
C10_DefensiveExtraction ==
    ( /\ ~IsNone(invoked)
      /\ Val(invoked).sent # NoRequest
      /\ reply.kind = "response" /\ reply.status = 200 /\ reply.body.valid
      /\ IsDict(reply.body.doc)
      /\ (~HasKey(reply.body.doc, "choices")
             \/ DictGet(reply.body.doc, "choices", JNull).t = "list") )
    => /\ Val(invoked).result.ok
       /\ Val(invoked).result.text = ContentOrEmpty(reply.body.doc)

(***************************************************************************)
(* Claims about the HTTP handlers                                          *)
(***************************************************************************)
ReqPath(h) == UrlPath(request[h].target)

\* thread h has run its handler to the end
Done(h) == stage[h] = "done"

\* thread h sent a request to an explicit-model endpoint on to a backend,
\* which answered with an HTTP response, and the handler has ended
Relayed(h) ==
    /\ Done(h)
    /\ request[h].method = "POST"
    /\ ReqPath(h) \in {P_chat, P_completions}
    /\ forwarded[h] # NoRequest
    /\ upstream[h].kind = "response"

\* C3 as stated: the client receives exactly the upstream's status code,
\* content-type and body on success and on an upstream HTTP error alike.
C3_RelayExact ==
    \A h \in Handlers :
      Relayed(h) =>
        /\ ~IsNone(response[h])
        /\ Val(response[h]).status = upstream[h].status
        /\ Some(Val(response[h]).ctype) = upstream[h].ctype
        /\ Val(response[h]).body = upstream[h].body

\* C3 amended: the client receives the upstream's status code and body, and
\* the upstream's content-type when it sent one, application/json when it did
\* not, on success and on an upstream HTTP error alike.
C3_RelayExactOrDefaultType ==
    \A h \in Handlers :
      Relayed(h) =>
        /\ ~IsNone(response[h])
        /\ Val(response[h]).status = upstream[h].status
        /\ Val(response[h]).body = upstream[h].body
        /\ ~IsNone(upstream[h].ctype) => Some(Val(response[h]).ctype) = upstream[h].ctype
        /\ IsNone(upstream[h].ctype) => Val(response[h]).ctype = "application/json"

\* an upstream 500 with its own content-type and a body that is no JSON has
\* been relayed by one thread while the other thread still waits for its
\* backend
C3_Witness ==
    \E h \in Handlers :
      /\ Relayed(h)
      /\ upstream[h].status = 500
      /\ upstream[h].ctype = Some("text/plain")
      /\ ~upstream[h].body.valid
      /\ ~IsNone(response[h])
      /\ Val(response[h]).status = 500
      /\ \E g \in Handlers \ {h} : stage[g] = "upstream"

\* the request of thread h carried a body that parsed to a JSON object
ObjectBody(h) ==
    /\ request[h].clen = Length(1)
    /\ request[h].body.valid
    /\ IsDict(request[h].body.doc)

\* the text of the "error" member of a JSON error response
ErrorMessage(resp) == DictGet(resp.body.doc, "error", JStr(<<>>)).s

\* C4: on the explicit-model endpoints a body without model member gets a
\* 400, a body whose model is a (non-empty) value other than the four accepted
\* names gets a 400 whose message names all four, and in both cases nothing is
\* sent to a backend.
C4_BadModelRejected ==
    \A h \in Handlers :
      ( /\ Done(h)
        /\ request[h].method = "POST"
        /\ ReqPath(h) \in {P_chat, P_completions}
        /\ ObjectBody(h) )
      => LET model == DictGet(request[h].body.doc, "model", JNull) IN
         /\ ~HasKey(request[h].body.doc, "model")
               => /\ ~IsNone(response[h])
                  /\ Val(response[h]).status = 400
                  /\ forwarded[h] = NoRequest
         /\ ( /\ HasKey(request[h].body.doc, "model")
              /\ Truthy(model)
              /\ ~(model.t = "str" /\ model.s \in ValidNames) )
               => /\ ~IsNone(response[h])
                  /\ Val(response[h]).status = 400
                  /\ \A m \in ValidNames : Contains(ErrorMessage(Val(response[h])), m)
                  /\ forwarded[h] = NoRequest

\* the endpoints of the interface
Listed(method, path) ==
    \/ /\ method = "GET"
       /\ \/ path \in {P_healthz, P_health, P_models, P_telemetry, P_root}
          \/ StartsWith(path, P_static)
    \/ /\ method = "POST"
       /\ path \in {P_route, P_chat, P_completions}

\* thread h has handled a GET or POST that is not a listed endpoint
Unlisted(h) ==
    /\ Done(h)
    /\ request[h].method \in {"GET", "POST"}
    /\ ~Listed(request[h].method, ReqPath(h))

NotFoundBody == Dumps(JObj(<<Member("error", JStr(<<"Not Found">>))>>))
UnsupportedBody == Dumps(JObj(<<Member("error", JStr(<<"Unsupported path">>))>>))

\* C7 as stated: every GET or POST that is not a listed endpoint is answered
\* 404 with {"error": "Not Found"}.
C7_UnlistedNotFound ==
    \A h \in Handlers :
      Unlisted(h)
      => /\ ~IsNone(response[h])
         /\ Val(response[h]).status = 404
         /\ Val(response[h]).body = NotFoundBody

\* C7 amended: every GET that is not a listed endpoint is answered 404 with
\* {"error": "Not Found"}, and every POST that is not a listed endpoint is
\* answered 404 with {"error": "Unsupported path"}.
C7_UnlistedIs404 ==
    \A h \in Handlers :
      Unlisted(h)
      => /\ ~IsNone(response[h])
         /\ Val(response[h]).status = 404
         /\ Val(response[h]).ctype = "application/json"
         /\ request[h].method = "GET" => Val(response[h]).body = NotFoundBody
         /\ request[h].method = "POST" => Val(response[h]).body = UnsupportedBody
         /\ forwarded[h] = NoRequest

\* a POST to a path that only do_GET knows, sent with a query string, has
\* been answered 404
C7_Witness ==
    \E h \in Handlers :
      /\ Unlisted(h)
      /\ request[h].method = "POST"
      /\ ReqPath(h) = P_health
      /\ request[h].target # ReqPath(h)
      /\ ~IsNone(response[h])
      /\ Val(response[h]).status = 404

====
